---- MODULE Spec2Model ----
(***************************************************************************)
(* Model of pysc2-replay-parser.                                           *)
(*                                                                         *)
(*   transform_replays.py : check_flags, ReplayParser.__init__,            *)
(*                          ReplayParser.start, check_valid_replay, main   *)
(*   custom_features.py   : SpatialFeatures / SPATIAL_FEATURES,            *)
(*                          CustomFeatures, custom_features_from_game_info *)
(*                                                                         *)
(* Spec          : one run of main() (flags, glob, parsers, step loop).    *)
(* SpecFeatures  : import of custom_features.py followed by calls of its   *)
(*                 public entry points.                                    *)
(*                                                                         *)
(* Python strings that the code takes apart (paths, glob patterns) are     *)
(* sequences of tokens: "/" is the separator, "*" and "**" the wildcards,  *)
(* every other token a run of ordinary characters.                         *)
(***************************************************************************)
EXTENDS Integers, Sequences, FiniteSets, TLC

VARIABLES
    FLAGS,          \* absl flag values (transform_replays.py:22-31)
    pc,             \* position of main()/start()
    exc,            \* exception that left main(), "none" while running
    pattern,        \* glob pattern built in directory mode
    replay_files,   \* result of glob.glob
    idx,            \* position of the for loop over replay_files
    parsed,         \* replay paths handed to ReplayParser(...), in order
    agents,         \* number of agent_cls() instances created
    self,           \* the ReplayParser under construction / running
    controller,     \* the game client of that parser
    last_check,     \* last call of check_valid_replay: info, ping, result
    obs,            \* local 'obs' of start()
    agent_obs,      \* local 'agent_obs' of start() (may be unbound)
    log,            \* TimeSteps received by the current agent's step()
    feats,          \* dict 'feats' of SpatialFeatures.__new__
    SPATIAL_FEATURES, \* module global of custom_features.py
    fpc,            \* position of the custom_features scenario
    cf,             \* the CustomFeatures object at hand
    last            \* last call into custom_features.py and its outcome

mainVars == <<FLAGS, pc, exc, pattern, replay_files, idx, parsed, agents,
              self, controller, last_check, obs, agent_obs, log>>
featVars == <<feats, SPATIAL_FEATURES, fpc, cf, last>>
vars == <<FLAGS, pc, exc, pattern, replay_files, idx, parsed, agents,
          self, controller, last_check, obs, agent_obs, log,
          feats, SPATIAL_FEATURES, fpc, cf, last>>

(***************************************************************************)
(* Bounds                                                                  *)
(***************************************************************************)
\* Longest replay, in iterations of the step loop: the observation made in
\* iteration MaxIter carries player_result.
MaxIter == 3

(***************************************************************************)
(* Python values                                                           *)
(***************************************************************************)
None == [some |-> FALSE, val |-> <<>>]
Some(v) == [some |-> TRUE, val |-> v]

Last(s) == s[Len(s)]

IsPrefix(p, s) == Len(p) <= Len(s) /\ SubSeq(s, 1, Len(p)) = p

IsSuffix(p, s) == Len(p) <= Len(s) /\ SubSeq(s, Len(s) - Len(p) + 1, Len(s)) = p

\* All orders in which a finite set can be listed.
RECURSIVE Orders(_)
Orders(S) ==
    IF S = {} THEN {<<>>}
    ELSE UNION {{<<x>> \o t : t \in Orders(S \ {x})} : x \in S}

(***************************************************************************)
(* Flags (transform_replays.py:22-31)                                      *)
(***************************************************************************)
DefaultSize == 64
DefaultStepMul == 4
DefaultMinGameLength == 3000
DefaultDiscount == 1

Sep == "/"

\* The strings given on the command line.
ReplayFileArg == <<Sep, "d", Sep, "a", ".SC2Replay">>
ReplayDirArgs == {<<Sep, "d">>}

FlagValues ==
    [replay_file : {None, Some(ReplayFileArg)},
     replay_dir : {None} \cup {Some(d) : d \in ReplayDirArgs},
     screen_size : {DefaultSize \div 2, DefaultSize},
     minimap_size : {DefaultSize \div 2, DefaultSize},
     step_mul : {1, DefaultStepMul},
     min_game_length : {DefaultMinGameLength},
     discount : {0, DefaultDiscount}]

\* check_flags(): "ok" when it returns, else the exception it raises.
check_flags_no_size_check(F) ==
    IF F.replay_file # None /\ F.replay_dir # None THEN "ValueError"
    ELSE IF F.replay_file # None THEN "ok"
    ELSE IF F.replay_dir # None THEN "ok"
    ELSE "ValueError"

check_flags(F) ==
    IF F.replay_file # None /\ F.replay_dir # None THEN "ValueError"
    ELSE IF F.replay_file = None /\ F.replay_dir = None THEN "ValueError"
    ELSE IF F.screen_size # F.minimap_size THEN "ValueError"
    ELSE "ok"

(***************************************************************************)
(* Paths and glob (transform_replays.py:222)                               *)
(***************************************************************************)
\* os.path.join(a, b) of posixpath: an absolute b discards a.  (ntpath keeps
\* only a's drive letter in that case, so a's directory is discarded too.)
join(a, b) ==
    IF b # <<>> /\ Head(b) = Sep THEN b
    ELSE IF a = <<>> \/ Last(a) = Sep THEN a \o b
    ELSE a \o <<Sep>> \o b

\* The literal second argument of os.path.join in main().
ReplayGlob == <<Sep, "**", Sep, "*", ".SC2Replay">>

\* str.split("/")
RECURSIVE Split(_)
Split(s) ==
    IF s = <<>> THEN << <<>> >>
    ELSE IF Head(s) = Sep THEN << <<>> >> \o Split(Tail(s))
    ELSE LET r == Split(Tail(s)) IN << <<Head(s)>> \o Head(r) >> \o Tail(r)

\* Tokens that begin with a dot: a name starting with one is hidden and is
\* matched neither by "*" nor by "**".
DotTokens == {".SC2Replay", ".txt"}

Hidden(name) == name # <<>> /\ Head(name) \in DotTokens

\* fnmatch of one path component against one pattern component.
MatchName(pat, name) ==
    IF pat # <<>> /\ Head(pat) = "*"
    THEN ~Hidden(name) /\ IsSuffix(Tail(pat), name)
    ELSE pat = name

\* glob's matching of path components, "**" standing for any number of
\* directories (recursive=True).
RECURSIVE MatchComps(_, _)
MatchComps(p, f) ==
    IF p = <<>> THEN f = <<>>
    ELSE IF Head(p) = <<"**">>
    THEN \/ MatchComps(Tail(p), f)
         \/ f # <<>> /\ ~Hidden(Head(f)) /\ MatchComps(p, Tail(f))
    ELSE f # <<>> /\ MatchName(Head(p), Head(f)) /\ MatchComps(Tail(p), Tail(f))

\* The files on disk when main() runs.
FileSystem ==
    {<<Sep, "d", Sep, "a", ".SC2Replay">>,
     <<Sep, "d", Sep, "s", Sep, "b", ".SC2Replay">>,
     <<Sep, "d", Sep, "n", ".txt">>,
     <<Sep, "d", Sep, ".SC2Replay">>,
     <<Sep, "e", Sep, "c", ".SC2Replay">>}

\* glob.glob(pat, recursive=True), as a set (the order is the file system's).
glob(pat) == {f \in FileSystem : MatchComps(Split(pat), Split(f))}

\* Whether file f lies under directory d.
Under(d, f) == IsPrefix(IF Last(d) = Sep THEN d ELSE d \o <<Sep>>, f)

(***************************************************************************)
(* Replay metadata and check_valid_replay (transform_replays.py:178-194)   *)
(***************************************************************************)
Builds == {1, 2}

\* ResponseReplayInfo, as far as the parser reads it.
Infos ==
    [error : BOOLEAN,
     base_build : Builds,
     game_duration_loops : {DefaultMinGameLength - 1, DefaultMinGameLength},
     player_info : 1..3]

Pings == [base_build : Builds]

check_valid_replay(info, ping, F) ==
    IF info.error THEN FALSE
    ELSE IF info.base_build # ping.base_build THEN TRUE
    ELSE IF info.game_duration_loops < F.min_game_length THEN FALSE
    ELSE IF info.player_info # 2 THEN FALSE
    ELSE TRUE

(***************************************************************************)
(* ReplayParser (transform_replays.py:50-176)                              *)
(***************************************************************************)
NoInfo == [error |-> FALSE, base_build |-> 0, game_duration_loops |-> 0,
           player_info |-> 0]

\* A game client that was launched (run_config.start()) and holds no replay.
FreshController == [running |-> FALSE, info |-> NoInfo, steps |-> 0, observes |-> 0]

\* No ReplayParser object yet.
NoParser == [attrs |-> {}, discount |-> 0, step_mul |-> 0,
             screen_size |-> <<>>, minimap_size |-> <<>>,
             _episode_length |-> 0, _episode_steps |-> 0, _state |-> "unset"]

NoObs == [game_loop |-> 0, player_result |-> FALSE]

Unbound == [bound |-> FALSE, game_loop |-> 0]

NoCheck == [called |-> FALSE, info |-> NoInfo, ping |-> [base_build |-> 0],
            result |-> FALSE]

\* The attributes __init__ has assigned when it calls check_valid_replay
\* (lines 60-86).
EarlyAttrs == {"agent", "discount", "step_mul", "player_id", "screen_size",
               "minimap_size", "run_config", "sc2_process", "controller"}

\* The attributes it assigns after the check (lines 102-143).
LateAttrs == {"map_name", "player_meta_info", "_episode_length",
              "_episode_steps", "_state"}

\* self after lines 60-86: flags are ints, so sizes become pairs.
EarlySelf(F) ==
    [attrs |-> EarlyAttrs, discount |-> F.discount, step_mul |-> F.step_mul,
     screen_size |-> <<F.screen_size, F.screen_size>>,
     minimap_size |-> <<F.minimap_size, F.minimap_size>>,
     _episode_length |-> 0, _episode_steps |-> 0, _state |-> "unset"]

\* ReplayParser.__init__(path, agent_cls(), ...) as called from main(): a new
\* agent, a new game client, replay_info, the validity check, and either the
\* exception or start_replay.
Construct(path) ==
    \E info \in Infos, ping \in Pings :
        LET valid == check_valid_replay(info, ping, FLAGS) IN
        /\ parsed' = Append(parsed, path)
        /\ agents' = agents + 1
        /\ log' = <<>>
        /\ last_check' = [called |-> TRUE, info |-> info, ping |-> ping,
                          result |-> valid]
        /\ obs' = NoObs
        /\ agent_obs' = Unbound
        /\ IF valid
           THEN /\ self' = [EarlySelf(FLAGS) EXCEPT
                               !.attrs = EarlyAttrs \cup LateAttrs,
                               !._episode_length = info.game_duration_loops,
                               !._episode_steps = 0,
                               !._state = "FIRST"]
                /\ controller' = [FreshController EXCEPT
                                     !.running = TRUE, !.info = info]
                /\ pc' = "step"
                /\ exc' = exc
           ELSE /\ self' = EarlySelf(FLAGS)
                /\ controller' = FreshController
                /\ pc' = "raised"
                /\ exc' = "Exception"

\* features.Features.transform_obs of the library, when it succeeds: the
\* agent's view of one observation, identified by the observation's game loop.
features_transform_obs(o) == [bound |-> TRUE, game_loop |-> o.game_loop]

\* Lines 159-163: the step type and discount of the TimeStep being built.
step_type_keeps_state(state, o) == state

step_type(state, o) == IF o.player_result THEN "LAST" ELSE state

step_discount(discount, o) == IF o.player_result THEN 0 ELSE discount

\* environment.TimeStep(...) of lines 167-170, with the observation it was
\* built in response to.
TimeStep(state, discount, observation, o) ==
    [step_type |-> state, reward |-> 0, discount |-> discount,
     observation |-> observation, of |-> o]

(***************************************************************************)
(* custom_features.py: SpatialFeatures and SPATIAL_FEATURES (20-55)        *)
(***************************************************************************)
\* The namedtuple's field list.
_fields == <<"height_map", "visibility_map", "creep", "camera",
             "player_id", "player_relative", "selected", "unit_type">>

\* Stand-in for max(static_data.UNIT_TYPES), a value of the pysc2 release.
MaxUnitType == 1961

\* The keyword arguments of the SpatialFeatures(...) call: (scale, type).
Kwargs ==
    [height_map |-> <<256, "SCALAR">>,
     visibility_map |-> <<4, "CATEGORICAL">>,
     creep |-> <<2, "CATEGORICAL">>,
     camera |-> <<2, "CATEGORICAL">>,
     player_id |-> <<17, "CATEGORICAL">>,
     player_relative |-> <<5, "CATEGORICAL">>,
     selected |-> <<2, "CATEGORICAL">>,
     unit_type |-> <<MaxUnitType + 1, "CATEGORICAL">>]

\* list.index / tuple.index: the zero-based position of the first x.
index_one_based(seq, x) ==
    CHOOSE i \in 1..Len(seq) : seq[i] = x /\ \A j \in 1..(i - 1) : seq[j] # x

index(seq, x) ==
    CHOOSE i \in 0..(Len(seq) - 1) :
        seq[i + 1] = x /\ \A j \in 0..(i - 1) : seq[j + 1] # x

\* The features.Feature built for one keyword argument (lines 32-41).
Feature(name, kw) ==
    [index |-> index(_fields, name),
     name |-> name,
     layer_set |-> "minimap_renders",
     full_name |-> <<"spatial ", name>>,
     scale |-> kw[1],
     type |-> kw[2],
     clip |-> FALSE]

\* One iteration of the loop of __new__, in whatever order the dict yields.
NewFeature ==
    /\ fpc = "import"
    /\ \E name \in (DOMAIN Kwargs) \ (DOMAIN feats) :
        feats' = feats @@ (name :> Feature(name, Kwargs[name]))
    /\ UNCHANGED <<SPATIAL_FEATURES, fpc, cf, last>>
    /\ UNCHANGED mainVars

\* Line 43: the namedtuple is filled by keyword, field by field.
NewTuple ==
    /\ fpc = "import"
    /\ DOMAIN feats = DOMAIN Kwargs
    /\ SPATIAL_FEATURES' = [i \in 1..Len(_fields) |-> feats[_fields[i]]]
    /\ fpc' = "ready"
    /\ UNCHANGED <<feats, cf, last>>
    /\ UNCHANGED mainVars

(***************************************************************************)
(* custom_features.py: CustomFeatures (58-184) and                         *)
(* custom_features_from_game_info (187-230)                                *)
(***************************************************************************)
\* Resolutions: screen and minimap differ, and so do x and y.
FeatureDims == [screen |-> [x |-> 2, y |-> 3], minimap |-> [x |-> 4, y |-> 5]]

UseOpts == [use_feature_units : BOOLEAN, use_raw_units : BOOLEAN,
            use_unit_counts : BOOLEAN, use_camera_position : BOOLEAN]

\* features.AgentInterfaceFormat, as far as CustomFeatures reads it.
AgentInterfaceFormat(fd, rgb, use) ==
    [feature_dimensions |-> fd, rgb_dimensions |-> rgb,
     use_feature_units |-> use.use_feature_units,
     use_raw_units |-> use.use_raw_units,
     use_unit_counts |-> use.use_unit_counts,
     use_camera_position |-> use.use_camera_position]

AIFs ==
    {AgentInterfaceFormat(fd, rgb, use) :
        fd \in {None, Some(FeatureDims)}, rgb \in {None, Some(FeatureDims)},
        use \in UseOpts}

NoAIF == AgentInterfaceFormat(None, None,
            [use_feature_units |-> FALSE, use_raw_units |-> FALSE,
             use_unit_counts |-> FALSE, use_camera_position |-> FALSE])

\* ResponseGameInfo.options: which of the two fields are set.
GameInfos == [feature_layer : BOOLEAN, render : BOOLEAN]

EmptyDict == [k \in {} |-> 0]

NoObject == [exists |-> FALSE, aif |-> NoAIF]

\* A call and its outcome.
Call(op, aif, render, raised, result) ==
    [op |-> op, aif |-> aif, render |-> render, raised |-> raised,
     result |-> result]

NoCall == Call("none", NoAIF, FALSE, "none", EmptyDict)

\* CustomFeatures.__init__ (63-69): the exception it raises, or "none".
CustomFeatures_init_accepts_rgb(aif) == "none"

CustomFeatures_init(aif) ==
    IF aif.rgb_dimensions # None THEN "NotImplementedError" ELSE "none"

\* CustomFeatures.observation_spec (71-126).
observation_spec(aif) ==
    LET base ==
            [action_result |-> <<0>>,
             alerts |-> <<0>>,
             available_actions |-> <<0>>,
             build_queue |-> <<0, "len(UnitLayer)">>,
             cargo |-> <<0, "len(UnitLayer)">>,
             cargo_slots_available |-> <<1>>,
             control_groups |-> <<10, 2>>,
             game_loop |-> <<1>>,
             last_actions |-> <<0>>,
             multi_select |-> <<0, "len(UnitLayer)">>,
             player |-> <<"len(Player)">>,
             score_cumulative |-> <<"len(ScoreCumulative)">>,
             score_by_category |-> <<"len(ScoreByCategory)", "len(ScoreCategories)">>,
             score_by_vital |-> <<"len(ScoreByVital)", "len(ScoreVitals)">>,
             single_select |-> <<0, "len(UnitLayer)">>]
        fd == aif.feature_dimensions.val
        spatial ==
            IF aif.feature_dimensions # None
            THEN [feature_screen |->
                      <<"len(SCREEN_FEATURES)", fd.screen.y, fd.screen.x>>,
                  feature_minimap |->
                      <<"len(MINIMAP_FEATURES)", fd.minimap.y, fd.minimap.x>>,
                  feature_spatial |->
                      <<Len(SPATIAL_FEATURES), fd.minimap.y, fd.minimap.x>>]
            ELSE EmptyDict
        units == IF aif.use_feature_units
                 THEN [feature_units |-> <<0, "len(FeatureUnit)">>] ELSE EmptyDict
        raw == IF aif.use_raw_units
               THEN [raw_units |-> <<0, "len(FeatureUnit)">>] ELSE EmptyDict
        counts == IF aif.use_unit_counts
                  THEN [unit_counts |-> <<0, "len(UnitCounts)">>] ELSE EmptyDict
        camera == IF aif.use_camera_position
                  THEN [camera_position |-> <<2>>] ELSE EmptyDict
    IN  IF aif.rgb_dimensions # None
        THEN [raised |-> "NotImplementedError", result |-> EmptyDict]
        ELSE [raised |-> "none",
              result |-> base @@ spatial @@ units @@ raw @@ counts @@ camera]

\* The observations handed to transform_obs: which minimap_renders layers the
\* protobuf carries.
Observations ==
    [minimap_renders :
        {{}, {_fields[i] : i \in 1..(Len(_fields) - 1)},
         {_fields[i] : i \in 1..Len(_fields)}}]

\* An int32 array.
Array(shape, data) == Some([dtype |-> "int32", shape |-> shape, data |-> data])

\* or_zeros(f.unpack(obs.observation), size) for one spatial feature.
or_zeros(f, o) == IF f.name \in o.minimap_renders THEN "unpacked" ELSE "zeros"

\* CustomFeatures.transform_obs (128-184).
transform_obs_calls_get_score_details(aif, o) ==
    [raised |-> "NotImplementedError", result |-> EmptyDict]

transform_obs(aif, o) ==
    LET empty == Array(<<0, "len(UnitLayer)">>, <<>>)
        out == [single_select |-> empty,
                multi_select |-> empty,
                build_queue |-> empty,
                cargo |-> empty,
                cargo_slots_available |-> Array(<<1>>, <<0>>)]
        fd == aif.feature_dimensions.val
        spatial ==
            IF aif.feature_dimensions # None
            THEN [feature_screen |->
                      Array(<<"len(SCREEN_FEATURES)", fd.screen.y, fd.screen.x>>,
                            "ScreenFeatures"),
                  feature_minimap |->
                      Array(<<"len(MINIMAP_FEATURES)", fd.minimap.y, fd.minimap.x>>,
                            "MinimapFeatures"),
                  feature_spatial |->
                      Array(<<Len(SPATIAL_FEATURES), fd.minimap.y, fd.minimap.x>>,
                            [i \in 1..Len(SPATIAL_FEATURES) |->
                                or_zeros(SPATIAL_FEATURES[i], o)])]
            ELSE EmptyDict
        rest == [last_actions |-> None,
                 action_result |-> None,
                 alerts |-> None,
                 game_loop |-> None,
                 score_cumulative |-> None,
                 score_by_category |-> None,
                 score_by_vital |-> None,
                 player |-> None]
    IN  IF aif.rgb_dimensions # None
        THEN [raised |-> "NotImplementedError", result |-> EmptyDict]
        ELSE [raised |-> "none", result |-> out @@ spatial @@ rest]

\* custom_features_from_game_info (187-230): the agent interface format it
\* builds when options.render is unset.
game_info_format(gi, use) ==
    AgentInterfaceFormat(IF gi.feature_layer THEN Some(FeatureDims) ELSE None,
                         None, use)

InitFeatures ==
    /\ FLAGS = <<>>
    /\ pc = "idle"
    /\ exc = "none"
    /\ pattern = <<>>
    /\ replay_files = <<>>
    /\ idx = 0
    /\ parsed = <<>>
    /\ agents = 0
    /\ self = NoParser
    /\ controller = FreshController
    /\ last_check = NoCheck
    /\ obs = NoObs
    /\ agent_obs = Unbound
    /\ log = <<>>
    /\ feats = EmptyDict
    /\ SPATIAL_FEATURES = <<>>
    /\ fpc = "import"
    /\ cf = NoObject
    /\ last = NoCall

\* CustomFeatures(agent_interface_format=aif): the object exists only when
\* __init__ returns.
NewCustomFeatures ==
    /\ fpc = "ready"
    /\ \E aif \in AIFs :
        LET raised == CustomFeatures_init(aif) IN
        /\ cf' = IF raised = "none" THEN [exists |-> TRUE, aif |-> aif] ELSE cf
        /\ last' = Call("CustomFeatures", aif, FALSE, raised, EmptyDict)
    /\ UNCHANGED <<feats, SPATIAL_FEATURES, fpc>>
    /\ UNCHANGED mainVars

\* custom_features_from_game_info(game_info, ...).
FromGameInfo ==
    /\ fpc = "ready"
    /\ \E gi \in GameInfos, use \in UseOpts :
        LET aif == game_info_format(gi, use)
            raised == IF gi.render THEN "NotImplementedError"
                      ELSE CustomFeatures_init(aif)
        IN  /\ cf' = IF raised = "none" THEN [exists |-> TRUE, aif |-> aif]
                     ELSE cf
            /\ last' = Call("custom_features_from_game_info", aif, gi.render,
                            raised, EmptyDict)
    /\ UNCHANGED <<feats, SPATIAL_FEATURES, fpc>>
    /\ UNCHANGED mainVars

\* cf.observation_spec()
ObservationSpec ==
    /\ fpc = "ready"
    /\ cf.exists
    /\ LET r == observation_spec(cf.aif) IN
        last' = Call("observation_spec", cf.aif, FALSE, r.raised, r.result)
    /\ UNCHANGED <<feats, SPATIAL_FEATURES, fpc, cf>>
    /\ UNCHANGED mainVars

\* cf.transform_obs(obs)
TransformObs ==
    /\ fpc = "ready"
    /\ cf.exists
    /\ \E o \in Observations :
        LET r == transform_obs(cf.aif, o) IN
        last' = Call("transform_obs", cf.aif, FALSE, r.raised, r.result)
    /\ UNCHANGED <<feats, SPATIAL_FEATURES, fpc, cf>>
    /\ UNCHANGED mainVars

NextFeatures ==
    \/ NewFeature
    \/ NewTuple
    \/ NewCustomFeatures
    \/ FromGameInfo
    \/ ObservationSpec
    \/ TransformObs

SpecFeatures == InitFeatures /\ [][NextFeatures]_vars

(***************************************************************************)
(* main() (transform_replays.py:197-233) and start() (145-176)             *)
(***************************************************************************)
Init ==
    /\ FLAGS \in FlagValues
    /\ pc = "check_flags"
    /\ exc = "none"
    /\ pattern = <<>>
    /\ replay_files = <<>>
    /\ idx = 0
    /\ parsed = <<>>
    /\ agents = 0
    /\ self = NoParser
    /\ controller = FreshController
    /\ last_check = NoCheck
    /\ obs = NoObs
    /\ agent_obs = Unbound
    /\ log = <<>>
    /\ feats = EmptyDict
    /\ SPATIAL_FEATURES = <<>>
    /\ fpc = "idle"
    /\ cf = NoObject
    /\ last = NoCall

\* Line 201, and the branch of line 211.
CheckFlags ==
    /\ pc = "check_flags"
    /\ IF check_flags(FLAGS) = "ok"
       THEN /\ pc' = IF FLAGS.replay_file # None THEN "file" ELSE "glob"
            /\ exc' = exc
       ELSE /\ pc' = "raised"
            /\ exc' = check_flags(FLAGS)
    /\ UNCHANGED <<FLAGS, pattern, replay_files, idx, parsed, agents, self,
                   controller, last_check, obs, agent_obs, log>>
    /\ UNCHANGED featVars

\* Lines 212-219: single-file mode.
ParseFile ==
    /\ pc = "file"
    /\ Construct(FLAGS.replay_file.val)
    /\ UNCHANGED <<FLAGS, pattern, replay_files, idx>>
    /\ UNCHANGED featVars

\* Lines 222-223: the pattern and the glob, in the order the file system
\* lists the matches.
Glob ==
    /\ pc = "glob"
    /\ pattern' = join(FLAGS.replay_dir.val, ReplayGlob)
    /\ replay_files' \in Orders(glob(pattern'))
    /\ idx' = 0
    /\ pc' = IF replay_files' = <<>> THEN "done" ELSE "next"
    /\ UNCHANGED <<FLAGS, exc, parsed, agents, self, controller, last_check,
                   obs, agent_obs, log>>
    /\ UNCHANGED featVars

\* Lines 224-232: the next replay of the for loop.
NextReplay ==
    /\ pc = "next"
    /\ idx < Len(replay_files)
    /\ idx' = idx + 1
    /\ Construct(replay_files[idx + 1])
    /\ UNCHANGED <<FLAGS, pattern, replay_files>>
    /\ UNCHANGED featVars

\* Line 151: controller.step(self.step_mul).
Step ==
    /\ pc = "step"
    /\ controller' = [controller EXCEPT !.steps = @ + 1]
    /\ pc' = "observe"
    /\ UNCHANGED <<FLAGS, exc, pattern, replay_files, idx, parsed, agents,
                   self, last_check, obs, agent_obs, log>>
    /\ UNCHANGED featVars

\* Line 152: obs = controller.observe().  The replay ends within MaxIter
\* iterations.
Observe ==
    /\ pc = "observe"
    /\ \E result \in BOOLEAN :
        /\ controller.steps >= MaxIter => result
        /\ obs' = [game_loop |-> controller.steps * self.step_mul,
                   player_result |-> result]
    /\ controller' = [controller EXCEPT !.observes = @ + 1]
    /\ pc' = "transform"
    /\ UNCHANGED <<FLAGS, exc, pattern, replay_files, idx, parsed, agents,
                   self, last_check, agent_obs, log>>
    /\ UNCHANGED featVars

\* Lines 153-157: transform_obs either returns, binding agent_obs, or raises;
\* the except clause prints and goes on, leaving agent_obs as it was.
Transform ==
    /\ pc = "transform"
    /\ \E raises \in BOOLEAN :
        agent_obs' = IF raises THEN agent_obs ELSE features_transform_obs(obs)
    /\ pc' = "deliver"
    /\ UNCHANGED <<FLAGS, exc, pattern, replay_files, idx, parsed, agents,
                   self, controller, last_check, obs, log>>
    /\ UNCHANGED featVars

\* Lines 159-176: state and discount, the step count, the TimeStep (reading an
\* unbound agent_obs raises UnboundLocalError), agent.step, then break or MID.
Deliver ==
    /\ pc = "deliver"
    /\ LET state == step_type(self._state, obs)
           discount == step_discount(self.discount, obs)
           steps == self._episode_steps + self.step_mul
       IN  IF ~agent_obs.bound
           THEN /\ self' = [self EXCEPT !._state = state, !._episode_steps = steps]
                /\ exc' = "UnboundLocalError"
                /\ pc' = "raised"
                /\ log' = log
           ELSE /\ log' = Append(log, TimeStep(state, discount, agent_obs, obs))
                /\ exc' = exc
                /\ IF obs.player_result
                   THEN /\ self' = [self EXCEPT !._state = state,
                                                !._episode_steps = steps]
                        /\ pc' = IF FLAGS.replay_file # None THEN "done"
                                 ELSE IF idx < Len(replay_files) THEN "next"
                                 ELSE "done"
                   ELSE /\ self' = [self EXCEPT !._state = "MID",
                                                !._episode_steps = steps]
                        /\ pc' = "step"
    /\ UNCHANGED <<FLAGS, pattern, replay_files, idx, parsed, agents,
                   controller, last_check, obs, agent_obs>>
    /\ UNCHANGED featVars

Next ==
    \/ CheckFlags
    \/ ParseFile
    \/ Glob
    \/ NextReplay
    \/ Step
    \/ Observe
    \/ Transform
    \/ Deliver

Spec == Init /\ [][Next]_vars

(***************************************************************************)
(* Properties of main(), ReplayParser and check_valid_replay, under Spec   *)
(***************************************************************************)
InLoop == pc \in {"step", "observe", "transform", "deliver"}

ExactlyOneSource(F) == (F.replay_file # None) # (F.replay_dir # None)

DirectoryMode == FLAGS.replay_file = None /\ FLAGS.replay_dir # None

\* C1: check_valid_replay returns False for every replay whose base build
\* differs from the client's, whose duration is below min_game_length, or
\* which does not have exactly two players.
C1_InvalidReplaysRejected ==
    last_check.called =>
        ((\/ last_check.info.base_build # last_check.ping.base_build
          \/ last_check.info.game_duration_loops < FLAGS.min_game_length
          \/ last_check.info.player_info # 2)
            => last_check.result = FALSE)

\* C2: a transform_obs exception never leaves start(): whatever exception
\* ends main() comes from check_flags or from the constructor, and every
\* iteration whose transform was attempted reaches agent.step.
C2_TransformErrorsNeverPropagate ==
    pc = "raised" => exc \in {"ValueError", "Exception"}

\* C3: check_flags returns normally exactly when one of replay_file and
\* replay_dir is set and the two sizes are equal; otherwise it raises
\* ValueError and main() constructs no ReplayParser.
C3_CheckFlags ==
    pc # "check_flags" =>
        /\ (exc # "ValueError") <=>
               (ExactlyOneSource(FLAGS) /\ FLAGS.screen_size = FLAGS.minimap_size)
        /\ exc = "ValueError" => agents = 0 /\ parsed = <<>> /\ self = NoParser

C3_Witness ==
    /\ pc = "raised"
    /\ exc = "ValueError"
    /\ ExactlyOneSource(FLAGS)
    /\ FLAGS.screen_size # FLAGS.minimap_size

\* C4: outside an iteration the agent has been called once per completed
\* controller.step, and every TimeStep it received carries the transform of
\* the observation made after the most recent simulation step.
C4_AgentSeesLatestObservation ==
    /\ (pc # "idle" /\ ~InLoop) \/ pc = "step" => Len(log) = controller.steps
    /\ \A i \in DOMAIN log : log[i].observation = features_transform_obs(log[i].of)

\* C5: in directory mode the glob pattern keeps replay_dir as its prefix and
\* every replay handed to a ReplayParser lies under replay_dir.
C5_OnlyFilesUnderReplayDir ==
    DirectoryMode =>
        /\ pattern # <<>> => IsPrefix(FLAGS.replay_dir.val, pattern)
        /\ \A i \in DOMAIN parsed : Under(FLAGS.replay_dir.val, parsed[i])

\* C9: a TimeStep is LAST with discount 0 exactly when its observation has
\* player_result; otherwise it has the configured discount and is FIRST if it
\* is the first delivery and MID if not; nothing is delivered after LAST, the
\* loop is left right after it, and on return _episode_steps is step_mul
\* times the number of deliveries.
C9_TimeSteps ==
    /\ \A i \in DOMAIN log :
        /\ (log[i].step_type = "LAST" /\ log[i].discount = 0)
               <=> log[i].of.player_result
        /\ ~log[i].of.player_result =>
               /\ log[i].discount = FLAGS.discount
               /\ log[i].step_type = IF i = 1 THEN "FIRST" ELSE "MID"
        /\ log[i].of.player_result => i = Len(log)
        /\ log[i].step_type = "FIRST" => i = 1
    /\ log # <<>> /\ Last(log).of.player_result => ~InLoop
    /\ pc \in {"next", "done"} /\ agents > 0 =>
        /\ log # <<>> /\ Last(log).step_type = "LAST"
        /\ self._episode_steps = self.step_mul * Len(log)

C9_Witness ==
    /\ pc = "done"
    /\ Len(log) = 3
    /\ FLAGS.discount = 0
    /\ FLAGS.step_mul = DefaultStepMul
    /\ log[2].observation.game_loop # log[2].of.game_loop

\* C10: start_replay is issued only after check_valid_replay returned True;
\* when it returns False the constructor raises before start_replay and
\* before _state and _episode_steps exist; so no replay with an error field,
\* a too-short duration or a player count other than two is ever started.
C10_NoInvalidReplayStarted ==
    /\ controller.running => last_check.called /\ last_check.result
    /\ last_check.called /\ ~last_check.result =>
        /\ exc = "Exception"
        /\ ~controller.running
        /\ self.attrs \cap {"_state", "_episode_steps"} = {}
    /\ controller.running =>
        /\ ~controller.info.error
        /\ controller.info.game_duration_loops >= FLAGS.min_game_length
        /\ controller.info.player_info = 2

(***************************************************************************)
(* Properties of custom_features.py, under SpecFeatures                    *)
(***************************************************************************)
FeatureLayerOnly(aif) == aif.feature_dimensions # None /\ aif.rgb_dimensions = None

\* C6: with RGB rendering configured the custom feature code raises
\* NotImplementedError and no CustomFeatures object comes to exist, so
\* observation_spec and transform_obs never run on one; with feature layers
\* only, none of the four entry points raises NotImplementedError.
C6_RgbNotImplemented ==
    /\ cf.exists => cf.aif.rgb_dimensions = None
    /\ last.op = "custom_features_from_game_info" /\ last.render =>
           last.raised = "NotImplementedError"
    /\ last.op = "CustomFeatures" /\ last.aif.rgb_dimensions # None =>
           last.raised = "NotImplementedError"
    /\ last.op \in {"observation_spec", "transform_obs"} =>
           last.aif.rgb_dimensions = None
    /\ last.op # "none" /\ FeatureLayerOnly(last.aif) /\ ~last.render =>
           last.raised = "none"

C6_Witness ==
    /\ cf.exists
    /\ FeatureLayerOnly(cf.aif)
    /\ last.op = "CustomFeatures"
    /\ last.aif.rgb_dimensions # None
    /\ last.raised = "NotImplementedError"

ScoreAndResultKeys == {"score_by_category", "score_by_vital", "action_result"}

\* C7 as stated: transform_obs on a feature-layer-only configuration never
\* returns a result in which score_by_category, score_by_vital or
\* action_result is present.
C7_ScoreKeysAbsent ==
    last.op = "transform_obs" /\ FeatureLayerOnly(last.aif) =>
        ScoreAndResultKeys \cap DOMAIN last.result = {}

\* C7 as amended: transform_obs on a feature-layer-only configuration raises
\* no NotImplementedError, and what it returns has score_by_category,
\* score_by_vital and action_result present with the placeholder None.
C7_ScoreKeysPlaceholders ==
    last.op = "transform_obs" /\ FeatureLayerOnly(last.aif) =>
        /\ last.raised # "NotImplementedError"
        /\ last.raised = "none" =>
            \A k \in ScoreAndResultKeys :
                k \in DOMAIN last.result /\ last.result[k] = None

C7_Witness ==
    /\ last.op = "transform_obs"
    /\ FeatureLayerOnly(last.aif)
    /\ last.raised = "none"
    /\ "feature_spatial" \in DOMAIN last.result

\* C8: SPATIAL_FEATURES has exactly 8 descriptors, in the order height_map,
\* visibility_map, creep, camera, player_id, player_relative, selected,
\* unit_type; each one's index is its position and its name its field name;
\* observation_spec gives feature_spatial the first dimension 8.
C8_SpatialFeatures ==
    /\ \A name \in DOMAIN feats :
        /\ feats[name].name = name
        /\ feats[name].index \in 0..7
        /\ _fields[feats[name].index + 1] = name
    /\ fpc = "ready" =>
        /\ Len(SPATIAL_FEATURES) = 8
        /\ [i \in 1..8 |-> SPATIAL_FEATURES[i].name] =
               <<"height_map", "visibility_map", "creep", "camera",
                 "player_id", "player_relative", "selected", "unit_type">>
        /\ \A i \in 1..8 : SPATIAL_FEATURES[i].index = i - 1
        /\ {SPATIAL_FEATURES[i].index : i \in 1..8} = 0..7
    /\ last.op = "observation_spec" /\ last.aif.feature_dimensions # None =>
        last.result["feature_spatial"][1] = 8

C8_Witness ==
    /\ fpc = "ready"
    /\ last.op = "observation_spec"
    /\ "feature_spatial" \in DOMAIN last.result

====
